---- MODULE Spec2Model ----
(***************************************************************************)
(* Avalanche proofs (src/avalanche/proof.cpp): identity derivation, score, *)
(* hex codec, structural verification and chain verification under cs_main.*)
(***************************************************************************)
EXTENDS Integers, Sequences, FiniteSets, TLC

VARIABLES
    proof,          \* the Proof under verification (immutable once built)
    dust,           \* stakeUtxoDustThreshold argument of verify
    legacy,         \* gArgs "-legacyavaproof"
    minConfs,       \* gArgs "-avaproofstakeutxoconfirmations"
    chain,          \* the chain state behind ChainstateManager
    cs_main,        \* owner of the chain lock, or NoThread
    pc,             \* per thread: position in caller / verify
    mode,           \* per thread: "structural" or "chain" overload running
    idx,            \* per thread: index of the stake the loop is at
    prevId,         \* per thread: local prevId of the structural loop
    utxos,          \* per thread: local set utxos of the structural loop
    tipMTP,         \* per thread: local tipMedianTimePast
    activeHeight,   \* per thread: local activeHeight
    result,         \* per thread: ProofValidationState after return
    entryChain,     \* per thread: chain state when the chain overload was entered
    mutation,       \* the one respect in which the input differs from base
    produced,       \* the reasons produced so far from base, one change each
    base,           \* the accepted proof and chain view the changes start from
    stakeAmounts,   \* amounts of the stakes of the proof being constructed
    score,          \* Proof::score of that proof
    prevScore,      \* score of the proof without its last stake
    hexInput,       \* the string handed to Proof::FromHex
    hexResult,      \* what FromHex returned: ok, the error, the proof
    hexOutput,      \* Proof::ToHex of the decoded proof
    hexAgain,       \* what FromHex returned for hexOutput
    hexPc,          \* position in the decode / encode / decode sequence
    treeDepth,      \* argument of twoInOneOutTree
    txs,            \* its count of the transactions to make
    queue,          \* its queue of transactions still to be spent
    txChain,        \* its vector chain, the transactions made so far
    treePc          \* position in twoInOneOutTree

harnessVars == <<mutation, produced, base>>
scoreVars == <<stakeAmounts, score, prevScore>>
hexVars == <<hexInput, hexResult, hexOutput, hexAgain, hexPc>>
treeVars == <<treeDepth, txs, queue, txChain, treePc>>
proofVars == <<proof, dust, legacy, minConfs, harnessVars, scoreVars, hexVars, treeVars>>
verifyVars == <<proof, dust, legacy, minConfs, chain, cs_main, pc, mode, idx, prevId,
                utxos, tipMTP, activeHeight, result, entryChain, harnessVars>>
localVars == <<mode, idx, prevId, utxos, tipMTP, activeHeight, result, entryChain>>
vars == <<proof, dust, legacy, minConfs, chain, cs_main, pc, mode, idx, prevId,
          utxos, tipMTP, activeHeight, result, entryChain, mutation, produced, base,
          stakeAmounts, score, prevScore,
          hexInput, hexResult, hexOutput, hexAgain, hexPc,
          treeDepth, txs, queue, txChain, treePc>>

-----------------------------------------------------------------------------
(* Bounds of the model. *)

\* AVALANCHE_MAX_PROOF_STAKES (set in avalanche/proof.h), scaled down so that
\* proofs above the limit can be enumerated.
AVALANCHE_MAX_PROOF_STAKES == 2

\* Longest stake list the model builds: one above the limit.
MaxStakes == AVALANCHE_MAX_PROOF_STAKES + 1

\* Block heights of stakes, coins and the tip range over 1..MaxHeight.
MaxHeight == 2

\* Number of blocks the validation thread connects or disconnects in a run.
MaxWrites == 2

NoThread == "none"
Unset == "unset"
Ok == "ok"

-----------------------------------------------------------------------------
(* Keys, signatures, scripts: the collaborators proof.cpp calls. *)

MasterKey == "m"
OtherKey == "kx"

\* A signature records who signed what; verification compares both.
Sign(key, msg) == [signer |-> key, msg |-> msg]

VerifySchnorr(pubkey, msg, sig) == sig.signer = pubkey /\ sig.msg = msg

KeyNum(k) == CASE k = "k1" -> 1 [] k = "k2" -> 2 [] OTHER -> 0

\* A script is its template type and the key it pays to.
Script(type, key) == [type |-> type, key |-> key]

IsStandard(script) == script.type \in {"p2pkh", "p2pk", "p2sh"}

NoDestination == [kind |-> "none", hash |-> "none"]

\* hash160(pubkey): PKHash(pubkey)
PKHash(pubkey) == [kind |-> "pkhash", hash |-> pubkey]

\* ExtractDestination: NoDestination when the script has no single destination
ExtractDestination(script) ==
    CASE script.type \in {"p2pkh", "p2pk"} -> PKHash(script.key)
      [] script.type = "p2sh" -> [kind |-> "scripthash", hash |-> script.key]
      [] OTHER -> NoDestination

-----------------------------------------------------------------------------
(* Stake, SignedStake, StakeCommitment, proof identity. *)

\* Stake::computeStakeId: a hash of the stake's serialization, as a number so
\* that stake ids are ordered.  Distinct stakes may collide in this small space.
computeStakeId(utxo, amount, height, coinbase, pubkey) ==
    (utxo + 2 * amount + height + (IF coinbase THEN 1 ELSE 0) + KeyNum(pubkey)) % 3

\* Stake constructor: the fields and the stake id derived from them.
MakeStake(utxo, amount, height, coinbase, pubkey) ==
    [utxo |-> utxo, amount |-> amount, height |-> height, coinbase |-> coinbase,
     pubkey |-> pubkey,
     stakeid |-> computeStakeId(utxo, amount, height, coinbase, pubkey)]

\* The stake as serialized (the derived id is not on the wire).
StakeBytes(s) == <<s.utxo, s.amount, s.height, s.coinbase, s.pubkey>>

\* Proof::computeProofId: limitedProofId, then proofid with the master key.
computeLimitedProofId(isLegacy, sequence, expirationTime, payoutScriptPubKey, stakeList) ==
    <<sequence, expirationTime,
      IF isLegacy THEN <<>> ELSE <<payoutScriptPubKey>>,
      Len(stakeList),
      [k \in 1..Len(stakeList) |-> StakeBytes(stakeList[k])]>>

computeProofId(limitedProofId, master) == <<limitedProofId, master>>

\* StakeCommitment::StakeCommitment
StakeCommitment(isLegacy, proofid, expirationTime, master) ==
    IF isLegacy THEN <<"proofid", proofid>>
    ELSE <<"commit", <<expirationTime, master>>>>

\* Stake::getHash
getHash(s, commitment) == <<commitment, StakeBytes(s)>>

\* SignedStake::verify
SignedStakeVerify(ss, commitment) ==
    VerifySchnorr(ss.stake.pubkey, getHash(ss.stake, commitment), ss.sig)

\* A proof as its constructor leaves it.  sigOk[k] tells whether stake k is
\* signed by its own key, proofSigOk whether the master key signed the proof.
MakeProof(isLegacy, sequence, expirationTime, payoutScriptPubKey, stakeList, sigOk, proofSigOk) ==
    LET lid == computeLimitedProofId(isLegacy, sequence, expirationTime,
                                     payoutScriptPubKey, stakeList)
        pid == computeProofId(lid, MasterKey)
        com == StakeCommitment(isLegacy, pid, expirationTime, MasterKey)
    IN  [sequence |-> sequence,
         expirationTime |-> expirationTime,
         master |-> MasterKey,
         payoutScriptPubKey |-> payoutScriptPubKey,
         stakes |-> [k \in 1..Len(stakeList) |->
                        [stake |-> stakeList[k],
                         sig |-> Sign(IF sigOk[k] THEN stakeList[k].pubkey ELSE OtherKey,
                                      getHash(stakeList[k], com))]],
         signature |-> Sign(IF proofSigOk THEN MasterKey ELSE OtherKey, lid),
         limitedProofId |-> lid,
         proofid |-> pid]

\* Proof::getStakeCommitment
getStakeCommitment(p, isLegacy) ==
    StakeCommitment(isLegacy, p.proofid, p.expirationTime, p.master)

-----------------------------------------------------------------------------
(* Amounts and the score.  An Amount is a 64-bit count of satoshis and the  *)
(* score a 32-bit unsigned value; both are held as little-endian sequences  *)
(* of hexadecimal digits so that products and quotients keep their width.   *)

COIN == 100000000
AmountDigits == 16
ScoreDigits == 8

\* The digits of a number below 2^31.
FromInt(n) == [i \in 1..AmountDigits |-> IF i > 8 THEN 0 ELSE (n \div (16 ^ (i - 1))) % 16]

RECURSIVE AddDigits(_, _, _, _)
AddDigits(a, b, i, carry) ==
    IF i > AmountDigits THEN <<>>
    ELSE LET d == a[i] + b[i] + carry
         IN  <<d % 16>> \o AddDigits(a, b, i + 1, d \div 16)

\* Amount + Amount
AmountAdd(a, b) == AddDigits(a, b, 1, 0)

RECURSIVE MulDigits(_, _, _, _)
MulDigits(a, m, i, carry) ==
    IF i > AmountDigits THEN <<>>
    ELSE LET d == a[i] * m + carry
         IN  <<d % 16>> \o MulDigits(a, m, i + 1, d \div 16)

\* int * Amount
AmountMul(m, a) == MulDigits(a, m, 1, 0)

RECURSIVE DivDigits(_, _, _, _)
DivDigits(a, d, i, rem) ==
    IF i = 0 THEN <<>>
    ELSE LET cur == rem * 16 + a[i]
         IN  DivDigits(a, d, i - 1, cur % d) \o <<cur \div d>>

\* Amount / Amount for non-negative amounts: the truncated quotient
AmountDiv(a, d) == DivDigits(a, d, AmountDigits, 0)

\* Conversion of the 64-bit quotient to uint32_t: the low 32 bits.
ToUint32(a) == SubSeq(a, 1, ScoreDigits)

RECURSIVE LessFrom(_, _, _)
LessFrom(x, y, i) ==
    IF i = 0 THEN FALSE
    ELSE IF x[i] # y[i] THEN x[i] < y[i]
    ELSE LessFrom(x, y, i - 1)

\* x < y for two values of the same width
Less(x, y) == LessFrom(x, y, Len(x))

\* Proof::amountToScore
amountToScore(amount) == ToUint32(AmountDiv(AmountMul(100, amount), COIN))

RECURSIVE SumAmounts(_, _)
SumAmounts(amounts, k) ==
    IF k = 0 THEN FromInt(0)
    ELSE AmountAdd(SumAmounts(amounts, k - 1), amounts[k])

\* Proof::getStakedAmount
getStakedAmount(amounts) == SumAmounts(amounts, Len(amounts))

\* Proof::computeScore
computeScore(amounts) == amountToScore(getStakedAmount(amounts))

-----------------------------------------------------------------------------
(* Hexadecimal strings and the wire format of a proof.  A string is a        *)
(* sequence of characters, a byte a number in 0..255, and a decoded proof    *)
(* holds each field as the bytes read for it.                                *)

LowerDigits == <<"0", "1", "2", "3", "4", "5", "6", "7", "8", "9",
                 "a", "b", "c", "d", "e", "f">>
UpperDigits == <<"0", "1", "2", "3", "4", "5", "6", "7", "8", "9",
                 "A", "B", "C", "D", "E", "F">>

\* HexDigit: the value of a hexadecimal character of either case, -1 otherwise
HexDigit(c) ==
    IF \E d \in 1..16 : LowerDigits[d] = c
    THEN (CHOOSE d \in 1..16 : LowerDigits[d] = c) - 1
    ELSE IF \E d \in 1..16 : UpperDigits[d] = c
    THEN (CHOOSE d \in 1..16 : UpperDigits[d] = c) - 1
    ELSE -1

\* IsHex: not empty, of even length, hexadecimal characters only
IsHex(str) ==
    /\ Len(str) > 0
    /\ Len(str) % 2 = 0
    /\ \A k \in 1..Len(str) : HexDigit(str[k]) >= 0

\* The number of leading pairs of hexadecimal characters of str.
HexPairs(str) ==
    LET bad == {k \in 1..Len(str) : HexDigit(str[k]) < 0}
        good == IF bad = {} THEN Len(str)
                ELSE (CHOOSE k \in bad : \A j \in bad : k <= j) - 1
    IN  good \div 2

\* ParseHex: the bytes of the leading pairs of hexadecimal characters
ParseHex(str) ==
    [k \in 1..HexPairs(str) |-> 16 * HexDigit(str[2 * k - 1]) + HexDigit(str[2 * k])]

\* HexStr: two lower-case characters for each byte
HexStr(bytes) ==
    [k \in 1..(2 * Len(bytes)) |->
        IF k % 2 = 1 THEN LowerDigits[(bytes[(k + 1) \div 2] \div 16) + 1]
        ELSE LowerDigits[(bytes[k \div 2] % 16) + 1]]

\* Widths of the wire format, in bytes.  Hashes, keys and signatures, whose
\* bytes are only copied, are scaled down from 32, 33 and 64 bytes.
IntBytes == 8
IndexBytes == 4
HeightBytes == 4
HashBytes == 4
PubKeyBytes == 3
SigBytes == 4

ReadFailed == [ok |-> FALSE, val |-> <<>>, next |-> 0]

\* w bytes from position pos, or failure when the input ends before.
ReadBytes(bytes, pos, w) ==
    IF pos + w - 1 <= Len(bytes)
    THEN [ok |-> TRUE, val |-> SubSeq(bytes, pos, pos + w - 1), next |-> pos + w]
    ELSE ReadFailed

\* ReadCompactSize: one byte below 253, or 253 and two bytes that hold at
\* least 253; the longer forms announce more bytes than any input here has.
ReadCompactSize(bytes, pos) ==
    IF pos > Len(bytes) THEN ReadFailed
    ELSE IF bytes[pos] < 253 THEN [ok |-> TRUE, val |-> bytes[pos], next |-> pos + 1]
    ELSE IF bytes[pos] = 253 /\ pos + 2 <= Len(bytes)
            /\ bytes[pos + 1] + 256 * bytes[pos + 2] >= 253
    THEN [ok |-> TRUE, val |-> bytes[pos + 1] + 256 * bytes[pos + 2], next |-> pos + 3]
    ELSE ReadFailed

\* WriteCompactSize, for counts below 2^16
WriteCompactSize(n) ==
    IF n < 253 THEN <<n>> ELSE <<253, n % 256, n \div 256>>

\* A read, and what is read after it when it succeeded.
Then(r, Rest(_)) ==
    CHOOSE out \in {IF done.ok THEN Rest(done) ELSE ReadFailed : done \in {r}} : TRUE

\* A byte string: its size, then its bytes.
ReadVarBytes(bytes, pos) ==
    Then(ReadCompactSize(bytes, pos), LAMBDA size : ReadBytes(bytes, size.next, size.val))

WriteVarBytes(b) == WriteCompactSize(Len(b)) \o b

\* A public key: a byte string that must hold PubKeyBytes bytes.
ReadPubKey(bytes, pos) ==
    Then(ReadVarBytes(bytes, pos),
         LAMBDA key : IF Len(key.val) = PubKeyBytes THEN key ELSE ReadFailed)

\* SignedStake: txid, output index, amount, packed height, pubkey, signature
ReadSignedStake(bytes, pos) ==
    Then(ReadBytes(bytes, pos, HashBytes), LAMBDA txid :
    Then(ReadBytes(bytes, txid.next, IndexBytes), LAMBDA n :
    Then(ReadBytes(bytes, n.next, IntBytes), LAMBDA amount :
    Then(ReadBytes(bytes, amount.next, HeightBytes), LAMBDA height :
    Then(ReadPubKey(bytes, height.next), LAMBDA pubkey :
    Then(ReadBytes(bytes, pubkey.next, SigBytes), LAMBDA sig :
        [ok |-> TRUE, next |-> sig.next,
         val |-> [txid |-> txid.val, n |-> n.val, amount |-> amount.val,
                  height |-> height.val, pubkey |-> pubkey.val, sig |-> sig.val]]))))))

WriteSignedStake(ss) ==
    ss.txid \o ss.n \o ss.amount \o ss.height \o WriteVarBytes(ss.pubkey) \o ss.sig

RECURSIVE ReadStakes(_, _, _)
ReadStakes(bytes, pos, count) ==
    IF count = 0 THEN [ok |-> TRUE, val |-> <<>>, next |-> pos]
    ELSE Then(ReadSignedStake(bytes, pos), LAMBDA first :
         Then(ReadStakes(bytes, first.next, count - 1), LAMBDA rest :
             [ok |-> TRUE, val |-> <<first.val>> \o rest.val, next |-> rest.next]))

RECURSIVE WriteStakes(_, _)
WriteStakes(stakeList, k) ==
    IF k > Len(stakeList) THEN <<>>
    ELSE WriteSignedStake(stakeList[k]) \o WriteStakes(stakeList, k + 1)

NothingRead(pos) == [ok |-> TRUE, val |-> <<>>, next |-> pos]

\* ss >> proof: the fields in wire order; what follows the proof is not read.
UnserializeProof(isLegacy, bytes) ==
    Then(ReadBytes(bytes, 1, IntBytes), LAMBDA sequence :
    Then(ReadBytes(bytes, sequence.next, IntBytes), LAMBDA expiration :
    Then(ReadPubKey(bytes, expiration.next), LAMBDA master :
    Then(ReadCompactSize(bytes, master.next), LAMBDA count :
    Then(ReadStakes(bytes, count.next, count.val), LAMBDA stakeList :
    Then(IF isLegacy THEN NothingRead(stakeList.next)
         ELSE ReadVarBytes(bytes, stakeList.next), LAMBDA payout :
    Then(IF isLegacy THEN NothingRead(payout.next)
         ELSE ReadBytes(bytes, payout.next, SigBytes), LAMBDA signature :
        [ok |-> TRUE, next |-> signature.next,
         val |-> [sequence |-> sequence.val, expirationTime |-> expiration.val,
                  master |-> master.val, stakes |-> stakeList.val,
                  payoutScriptPubKey |-> payout.val,
                  signature |-> signature.val]])))))))

\* ss << proof
SerializeProof(isLegacy, p) ==
    p.sequence \o p.expirationTime \o WriteVarBytes(p.master)
        \o WriteCompactSize(Len(p.stakes)) \o WriteStakes(p.stakes, 1)
        \o (IF isLegacy THEN <<>> ELSE WriteVarBytes(p.payoutScriptPubKey) \o p.signature)

NoProof == <<>>

\* What FromHex answers once the stream has been read.
Decoded(r) ==
    IF ~r.ok
    THEN [ok |-> FALSE, error |-> "invalid-format", proof |-> NoProof]
    ELSE [ok |-> TRUE, error |-> "", proof |-> r.val]

\* Variant of FromHex without the IsHex test.
FromHex_NoIsHex(isLegacy, hexProof) ==
    CHOOSE out \in {Decoded(UnserializeProof(isLegacy, bytes)) :
                       bytes \in {ParseHex(hexProof)}} : TRUE

\* Proof::FromHex
FromHex(isLegacy, hexProof) ==
    IF ~IsHex(hexProof)
    THEN [ok |-> FALSE, error |-> "not-hex", proof |-> NoProof]
    ELSE CHOOSE out \in {Decoded(UnserializeProof(isLegacy, bytes)) :
                            bytes \in {ParseHex(hexProof)}} : TRUE

\* Proof::ToHex
ToHex(isLegacy, p) == HexStr(SerializeProof(isLegacy, p))

-----------------------------------------------------------------------------
(* The chain state read through ChainstateManager. *)

NoTip == [mtp |-> 0, height |-> 0, present |-> FALSE]
NoCoin == [present |-> FALSE]

Tip(mtp, height) == [mtp |-> mtp, height |-> height, present |-> TRUE]

Coin(height, coinbase, amount, script) ==
    [present |-> TRUE, height |-> height, coinbase |-> coinbase,
     amount |-> amount, script |-> script]

\* chainman.ActiveTip() and GetMedianTimePast(), 0 without a tip
TipMedianTimePast(c) == IF c.tip.present THEN c.tip.mtp ELSE 0

\* chainman.ActiveHeight()
ActiveHeight(c) == IF c.tip.present THEN c.tip.height ELSE 0

\* CoinsTip().GetCoin(utxo, coin)
GetCoin(c, utxo) == c.coins[utxo]

-----------------------------------------------------------------------------
(* Proof::verify(dustThreshold, state): the checks before the stake loop. *)

StructuralHeadCheck(p, isLegacy) ==
    IF Len(p.stakes) = 0 THEN "NoStake"
    ELSE IF Len(p.stakes) > AVALANCHE_MAX_PROOF_STAKES THEN "TooManyUtxos"
    ELSE IF ~isLegacy /\ ~IsStandard(p.payoutScriptPubKey) THEN "InvalidPayoutScript"
    ELSE IF ~isLegacy /\ ~VerifySchnorr(p.master, p.limitedProofId, p.signature)
         THEN "InvalidProofSignature"
    ELSE Ok

\* Variant of the loop body with the duplicate test ahead of the ordering test.
StructuralStakeCheck_DuplicateFirst(ss, dustThreshold, prev, seen, commitment) ==
    IF ss.stake.amount < dustThreshold THEN "DustThreshold"
    ELSE IF ss.stake.utxo \in seen THEN "DuplicateStake"
    ELSE IF ss.stake.stakeid < prev THEN "WrongStakeOrdering"
    ELSE IF ~SignedStakeVerify(ss, commitment) THEN "InvalidStakeSignature"
    ELSE Ok

\* Variant of the loop body that ignores the result of utxos.insert.
StructuralStakeCheck_NoDuplicateTest(ss, dustThreshold, prev, seen, commitment) ==
    IF ss.stake.amount < dustThreshold THEN "DustThreshold"
    ELSE IF ss.stake.stakeid < prev THEN "WrongStakeOrdering"
    ELSE IF ~SignedStakeVerify(ss, commitment) THEN "InvalidStakeSignature"
    ELSE Ok

(* One iteration of the stake loop of the structural verify: ss is the stake, *)
(* prev the local prevId, seen the local utxos set.                           *)
StructuralStakeCheck(ss, dustThreshold, prev, seen, commitment) ==
    IF ss.stake.amount < dustThreshold THEN "DustThreshold"
    ELSE IF ss.stake.stakeid < prev THEN "WrongStakeOrdering"
    ELSE IF ss.stake.utxo \in seen THEN "DuplicateStake"
    ELSE IF ~SignedStakeVerify(ss, commitment) THEN "InvalidStakeSignature"
    ELSE Ok

\* Variant of the expiration check with an exclusive boundary.
ExpiredCheck_Strict(p, mtp) ==
    IF p.expirationTime > 0 /\ mtp > p.expirationTime THEN "Expired" ELSE Ok

(* Proof::verify(dustThreshold, chainman, state): the expiration check. *)
ExpiredCheck(p, mtp) ==
    IF p.expirationTime > 0 /\ mtp >= p.expirationTime THEN "Expired" ELSE Ok

\* Variant of the maturity test made on the height of the coin found.
MaturityHeight_OfCoin(s, coin) == coin.height

\* The height the maturity test of the chain verify is made on.
MaturityHeight(s, coin) == s.height

\* Variant of the loop body with the amount test ahead of the height test.
ChainStakeCheck_AmountFirst(ss, coin, height, confirmations) ==
    LET s == ss.stake
    IN  IF ~coin.present THEN "MissingUtxo"
        ELSE IF s.height + confirmations - 1 > height THEN "ImmatureUtxo"
        ELSE IF s.coinbase # coin.coinbase THEN "CoinbaseMismatch"
        ELSE IF s.amount # coin.amount THEN "AmountMismatch"
        ELSE IF s.height # coin.height THEN "HeightMismatch"
        ELSE LET dest == ExtractDestination(coin.script)
             IN  IF dest = NoDestination THEN "NonStandardDestination"
                 ELSE IF dest.kind # "pkhash" THEN "DestinationNotSupported"
                 ELSE IF dest # PKHash(s.pubkey) THEN "DestinationMismatch"
                 ELSE Ok

\* Variant of the loop body that does not compare the amounts.
ChainStakeCheck_NoAmountTest(ss, coin, height, confirmations) ==
    LET s == ss.stake
    IN  IF ~coin.present THEN "MissingUtxo"
        ELSE IF s.height + confirmations - 1 > height THEN "ImmatureUtxo"
        ELSE IF s.coinbase # coin.coinbase THEN "CoinbaseMismatch"
        ELSE IF s.height # coin.height THEN "HeightMismatch"
        ELSE LET dest == ExtractDestination(coin.script)
             IN  IF dest = NoDestination THEN "NonStandardDestination"
                 ELSE IF dest.kind # "pkhash" THEN "DestinationNotSupported"
                 ELSE IF dest # PKHash(s.pubkey) THEN "DestinationMismatch"
                 ELSE Ok

(* One iteration of the stake loop of the chain verify. *)
ChainStakeCheck(ss, coin, height, confirmations) ==
    LET s == ss.stake
    IN  IF ~coin.present THEN "MissingUtxo"
        ELSE IF MaturityHeight(s, coin) + confirmations - 1 > height THEN "ImmatureUtxo"
        ELSE IF s.coinbase # coin.coinbase THEN "CoinbaseMismatch"
        ELSE IF s.height # coin.height THEN "HeightMismatch"
        ELSE IF s.amount # coin.amount THEN "AmountMismatch"
        ELSE LET dest == ExtractDestination(coin.script)
             IN  IF dest = NoDestination THEN "NonStandardDestination"
                 ELSE IF dest.kind # "pkhash" THEN "DestinationNotSupported"
                 ELSE IF dest # PKHash(s.pubkey) THEN "DestinationMismatch"
                 ELSE Ok

-----------------------------------------------------------------------------
(* Threads: callers of verify, and the steps of the two overloads. *)

Threads == {"t1", "t2"}

\* The caller takes cs_main (LOCK(cs_main)); the lock is recursive, one owner.
Lock(t) ==
    /\ pc[t] = "idle"
    /\ cs_main = NoThread
    /\ cs_main' = t
    /\ UNCHANGED <<proofVars, chain, pc, localVars>>

\* Variant of the assertion that lets every caller through.
AssertLockHeld_Off(t) == TRUE

\* AssertLockHeld(cs_main): whether the calling thread owns the lock.
AssertLockHeld(t) == cs_main = t

\* A caller enters verify(dustThreshold, state).
CallStructural(t) ==
    /\ pc[t] = "idle"
    /\ pc' = [pc EXCEPT ![t] = "sv_entry"]
    /\ mode' = [mode EXCEPT ![t] = "structural"]
    /\ UNCHANGED <<proofVars, chain, cs_main, idx, prevId, utxos, tipMTP,
                   activeHeight, result, entryChain>>

\* A caller enters verify(dustThreshold, chainman, state): the assertion on
\* cs_main stops a caller that does not hold the lock.
CallChain(t) ==
    /\ pc[t] = "idle"
    /\ IF AssertLockHeld(t)
       THEN /\ pc' = [pc EXCEPT ![t] = "sv_entry"]
            /\ mode' = [mode EXCEPT ![t] = "chain"]
            /\ entryChain' = [entryChain EXCEPT ![t] = chain]
       ELSE /\ pc' = [pc EXCEPT ![t] = "assert_failed"]
            /\ UNCHANGED <<mode, entryChain>>
    /\ UNCHANGED <<proofVars, chain, cs_main, idx, prevId, utxos, tipMTP,
                   activeHeight, result>>

\* A structural failure ends either overload with the reason; success ends the
\* structural overload and sends the chain overload on to the tip.
StructuralEntry(t) ==
    /\ pc[t] = "sv_entry"
    /\ LET r == StructuralHeadCheck(proof, legacy)
       IN  IF r # Ok
           THEN /\ result' = [result EXCEPT ![t] = r]
                /\ pc' = [pc EXCEPT ![t] = "done"]
                /\ UNCHANGED <<idx, prevId, utxos>>
           ELSE /\ prevId' = [prevId EXCEPT ![t] = 0]
                /\ utxos' = [utxos EXCEPT ![t] = {}]
                /\ idx' = [idx EXCEPT ![t] = 1]
                /\ pc' = [pc EXCEPT ![t] = "sv_loop"]
                /\ UNCHANGED result
    /\ UNCHANGED <<proofVars, chain, cs_main, mode, tipMTP, activeHeight, entryChain>>

StructuralStake(t) ==
    /\ pc[t] = "sv_loop"
    /\ LET ss == proof.stakes[idx[t]]
           r == StructuralStakeCheck(ss, dust, prevId[t], utxos[t],
                                     getStakeCommitment(proof, legacy))
       IN  IF r # Ok
           THEN /\ result' = [result EXCEPT ![t] = r]
                /\ pc' = [pc EXCEPT ![t] = "done"]
                /\ UNCHANGED <<idx, prevId, utxos>>
           ELSE /\ prevId' = [prevId EXCEPT ![t] = ss.stake.stakeid]
                /\ utxos' = [utxos EXCEPT ![t] = utxos[t] \cup {ss.stake.utxo}]
                /\ IF idx[t] < Len(proof.stakes)
                   THEN /\ idx' = [idx EXCEPT ![t] = idx[t] + 1]
                        /\ UNCHANGED <<pc, result>>
                   ELSE IF mode[t] = "structural"
                   THEN /\ result' = [result EXCEPT ![t] = Ok]
                        /\ pc' = [pc EXCEPT ![t] = "done"]
                        /\ UNCHANGED idx
                   ELSE /\ pc' = [pc EXCEPT ![t] = "cv_tip"]
                        /\ UNCHANGED <<idx, result>>
    /\ UNCHANGED <<proofVars, chain, cs_main, mode, tipMTP, activeHeight, entryChain>>

\* ActiveTip, its median time past, and the expiration check.
ChainTip(t) ==
    /\ pc[t] = "cv_tip"
    /\ LET mtp == TipMedianTimePast(chain)
           r == ExpiredCheck(proof, mtp)
       IN  /\ tipMTP' = [tipMTP EXCEPT ![t] = mtp]
           /\ IF r # Ok
              THEN /\ result' = [result EXCEPT ![t] = r]
                   /\ pc' = [pc EXCEPT ![t] = "done"]
              ELSE /\ pc' = [pc EXCEPT ![t] = "cv_height"]
                   /\ UNCHANGED result
    /\ UNCHANGED <<proofVars, chain, cs_main, mode, idx, prevId, utxos,
                   activeHeight, entryChain>>

\* ActiveHeight and the configured confirmations, before the stake loop.
ChainHeight(t) ==
    /\ pc[t] = "cv_height"
    /\ activeHeight' = [activeHeight EXCEPT ![t] = ActiveHeight(chain)]
    /\ idx' = [idx EXCEPT ![t] = 1]
    /\ pc' = [pc EXCEPT ![t] = "cv_loop"]
    /\ UNCHANGED <<proofVars, chain, cs_main, mode, prevId, utxos, tipMTP,
                   result, entryChain>>

ChainStake(t) ==
    /\ pc[t] = "cv_loop"
    /\ LET ss == proof.stakes[idx[t]]
           r == ChainStakeCheck(ss, GetCoin(chain, ss.stake.utxo),
                                activeHeight[t], minConfs)
       IN  IF r # Ok
           THEN /\ result' = [result EXCEPT ![t] = r]
                /\ pc' = [pc EXCEPT ![t] = "done"]
                /\ UNCHANGED idx
           ELSE IF idx[t] < Len(proof.stakes)
           THEN /\ idx' = [idx EXCEPT ![t] = idx[t] + 1]
                /\ UNCHANGED <<pc, result>>
           ELSE /\ result' = [result EXCEPT ![t] = Ok]
                /\ pc' = [pc EXCEPT ![t] = "done"]
                /\ UNCHANGED idx
    /\ UNCHANGED <<proofVars, chain, cs_main, mode, prevId, utxos, tipMTP,
                   activeHeight, entryChain>>

\* The caller leaves its critical section once verify has returned.
Unlock(t) ==
    /\ pc[t] = "done"
    /\ cs_main = t
    /\ cs_main' = NoThread
    /\ pc' = [pc EXCEPT ![t] = "released"]
    /\ UNCHANGED <<proofVars, chain, localVars>>

-----------------------------------------------------------------------------
(* Inputs. *)

\* Outpoints: enough of them for a proof one stake above the limit.
UTXOs == 1..MaxStakes
StructuralUTXOs == {1, 2}
StakeAmounts == {1, 2}
DustThresholds == {1, 2}
PayoutScripts == {Script("p2pkh", MasterKey), Script("nonstandard", MasterKey)}

SeqsUpTo(S, n) == UNION {[1..k -> S] : k \in 0..n}

\* Stakes of the structural inputs: the utxo and the amount vary.
StructuralStakes ==
    {MakeStake(u, a, 1, FALSE, "k1") : u \in StructuralUTXOs, a \in StakeAmounts}

\* A plan names each stake and whether it is signed by its own key.
StructuralPlans == SeqsUpTo(StructuralStakes \X BOOLEAN, MaxStakes)

PlanProof(isLegacy, expirationTime, payout, plan, proofSigOk) ==
    MakeProof(isLegacy, 0, expirationTime, payout,
              [k \in 1..Len(plan) |-> plan[k][1]],
              [k \in 1..Len(plan) |-> plan[k][2]], proofSigOk)

EmptyChain == [tip |-> NoTip, coins |-> [u \in UTXOs |-> NoCoin], version |-> 0]

InitThreads ==
    /\ cs_main = NoThread
    /\ pc = [t \in Threads |-> "idle"]
    /\ mode = [t \in Threads |-> "none"]
    /\ idx = [t \in Threads |-> 0]
    /\ prevId = [t \in Threads |-> 0]
    /\ utxos = [t \in Threads |-> {}]
    /\ tipMTP = [t \in Threads |-> 0]
    /\ activeHeight = [t \in Threads |-> 0]
    /\ result = [t \in Threads |-> Unset]
    /\ entryChain = [t \in Threads |-> EmptyChain]

NoBase == [proof |-> <<>>, chain |-> EmptyChain, minConfs |-> 0]

InitNoScore ==
    /\ stakeAmounts = <<>>
    /\ score = computeScore(<<>>)
    /\ prevScore = score

NoResult == [ok |-> FALSE, error |-> "", proof |-> NoProof]

InitNoHex ==
    /\ hexInput = <<>>
    /\ hexResult = NoResult
    /\ hexOutput = <<>>
    /\ hexAgain = NoResult
    /\ hexPc = "off"

InitNoTree ==
    /\ treeDepth = 0
    /\ txs = 0
    /\ queue = <<>>
    /\ txChain = <<>>
    /\ treePc = "off"

InitNoHarness ==
    /\ mutation = "none"
    /\ produced = {}
    /\ base = NoBase
    /\ InitNoScore
    /\ InitNoHex
    /\ InitNoTree

-----------------------------------------------------------------------------
(* Structural verification of every proof of the input set, by one thread. *)

InitStructural ==
    /\ legacy \in BOOLEAN
    /\ dust \in DustThresholds
    /\ minConfs = 1
    /\ \E plan \in StructuralPlans, payout \in PayoutScripts, proofSigOk \in BOOLEAN :
          proof = PlanProof(legacy, 0, payout, plan, proofSigOk)
    /\ chain = EmptyChain
    /\ InitThreads
    /\ InitNoHarness

NextStructural ==
    \/ CallStructural("t1")
    \/ StructuralEntry("t1")
    \/ StructuralStake("t1")

SpecStructural == InitStructural /\ [][NextStructural]_vars

-----------------------------------------------------------------------------
(* Chain verification by one thread, over proofs and chain views. *)

Heights == 1..MaxHeight
CoinAmounts == {2, 3}
CoinScripts == {Script("p2pkh", "k1"), Script("p2pkh", "k2"),
                Script("p2sh", "k1"), Script("nonstandard", "k1")}
Confirmations == {1, 2}
ExpirationTimes == {-1, 0, 2}
MedianTimes == {1, 2, 3}

P2PKH1 == Script("p2pkh", "k1")

\* Every coin a utxo can map to, and the absence of a coin.
AllCoins ==
    {NoCoin} \cup {Coin(h, cb, a, sc) : h \in Heights, cb \in BOOLEAN,
                                        a \in CoinAmounts, sc \in CoinScripts}

AllTips == {NoTip} \cup {Tip(m, h) : m \in MedianTimes, h \in Heights}

\* Coins that differ from a non-coinbase 2-unit coin paid to k1 in one respect.
NarrowCoins ==
    {NoCoin} \cup {Coin(h, FALSE, 2, P2PKH1) : h \in Heights}
             \cup {Coin(1, TRUE, 2, P2PKH1), Coin(1, FALSE, 3, P2PKH1)}
             \cup {Coin(1, FALSE, 2, sc) : sc \in CoinScripts}

ChainOf(tip, coins) == [tip |-> tip, coins |-> coins, version |-> 0]

\* One stake against every coin, tip, expiration time and confirmation count.
InitChainOneStake ==
    /\ legacy = FALSE
    /\ dust = 2
    /\ minConfs \in Confirmations
    /\ \E h \in Heights, cb \in BOOLEAN, e \in ExpirationTimes :
          proof = MakeProof(FALSE, 0, e, Script("p2pkh", MasterKey),
                            <<MakeStake(1, 2, h, cb, "k1")>>, <<TRUE>>, TRUE)
    /\ \E tip \in AllTips, c \in AllCoins :
          chain = ChainOf(tip, [u \in UTXOs |-> IF u = 1 THEN c ELSE NoCoin])

\* Two stakes, in either order and also on the same utxo, against two coins.
InitChainTwoStakes ==
    /\ legacy = FALSE
    /\ dust = 2
    /\ minConfs = 1
    /\ \E u1, u2 \in StructuralUTXOs, h1, h2 \in Heights, e \in {0, 2} :
          proof = MakeProof(FALSE, 0, e, Script("p2pkh", MasterKey),
                            <<MakeStake(u1, 2, h1, FALSE, "k1"),
                              MakeStake(u2, 2, h2, FALSE, "k1")>>,
                            <<TRUE, TRUE>>, TRUE)
    /\ \E tip \in {NoTip, Tip(1, MaxHeight), Tip(2, 1)}, c1, c2 \in NarrowCoins :
          chain = ChainOf(tip, [u \in UTXOs |-> IF u = 1 THEN c1 ELSE c2])

\* Every proof of the structural input set against a chain that backs utxo 1.
InitChainAnyProof ==
    /\ legacy = FALSE
    /\ dust = 2
    /\ minConfs = 1
    /\ \E plan \in StructuralPlans, payout \in PayoutScripts, proofSigOk \in BOOLEAN :
          proof = PlanProof(legacy, 0, payout, plan, proofSigOk)
    /\ chain = ChainOf(Tip(1, 1), [u \in UTXOs |->
                                    IF u = 1 THEN Coin(1, FALSE, 2, P2PKH1) ELSE NoCoin])

InitChain ==
    /\ InitChainOneStake \/ InitChainTwoStakes \/ InitChainAnyProof
    /\ InitThreads
    /\ InitNoHarness

NextChain ==
    \/ Lock("t1")
    \/ CallChain("t1")
    \/ StructuralEntry("t1")
    \/ StructuralStake("t1")
    \/ ChainTip("t1")
    \/ ChainHeight("t1")
    \/ ChainStake("t1")
    \/ Unlock("t1")

SpecChain == InitChain /\ [][NextChain]_vars

-----------------------------------------------------------------------------
(* One change at a time to an accepted proof and its chain view: the base   *)
(* is verified first, and each change starts again from the accepted base.  *)

StructuralReasons ==
    {"NoStake", "TooManyUtxos", "DustThreshold", "WrongStakeOrdering",
     "DuplicateStake", "InvalidStakeSignature", "InvalidProofSignature",
     "InvalidPayoutScript"}

ChainReasons ==
    {"Expired", "MissingUtxo", "ImmatureUtxo", "CoinbaseMismatch", "HeightMismatch",
     "AmountMismatch", "NonStandardDestination", "DestinationNotSupported",
     "DestinationMismatch"}

AllReasons == StructuralReasons \cup ChainReasons

\* The order in which the changes are tried.
KindOrder ==
    <<"NoStake", "TooManyUtxos", "DustThreshold", "WrongStakeOrdering",
      "DuplicateStake", "InvalidStakeSignature", "InvalidProofSignature",
      "InvalidPayoutScript", "Expired", "MissingUtxo", "ImmatureUtxo",
      "CoinbaseMismatch", "HeightMismatch", "AmountMismatch",
      "NonStandardDestination", "DestinationNotSupported", "DestinationMismatch">>

KindIndex(kind) ==
    IF kind = "none" THEN 0 ELSE CHOOSE k \in 1..Len(KindOrder) : KindOrder[k] = kind

BaseStakes == {MakeStake(u, 2, 1, FALSE, "k1") : u \in 1..AVALANCHE_MAX_PROOF_STAKES}

StakesOf(p) == [k \in 1..Len(p.stakes) |-> p.stakes[k].stake]
AllSigned(n) == [k \in 1..n |-> TRUE]

\* The proof rebuilt, and signed again, around a changed stake list.
WithStakes(p, isLegacy, stakeList) ==
    MakeProof(isLegacy, p.sequence, p.expirationTime, p.payoutScriptPubKey,
              stakeList, AllSigned(Len(stakeList)), TRUE)

\* The proofs that differ from p in the one respect `kind`.
ChangedProofs(kind, p, isLegacy) ==
    LET st == StakesOf(p)
        n == Len(st)
    IN  CASE kind = "NoStake" -> {WithStakes(p, isLegacy, <<>>)}
          [] kind = "TooManyUtxos" ->
                IF n = AVALANCHE_MAX_PROOF_STAKES
                THEN {WithStakes(p, isLegacy,
                                 Append(st, MakeStake(MaxStakes, 2, 1, FALSE, "k1")))}
                ELSE {}
          [] kind = "DustThreshold" ->
                {WithStakes(p, isLegacy,
                            [st EXCEPT ![j] = MakeStake(st[j].utxo, 1, st[j].height,
                                                        st[j].coinbase, st[j].pubkey)])
                    : j \in 1..n}
          [] kind = "WrongStakeOrdering" ->
                {WithStakes(p, isLegacy,
                            [st EXCEPT ![j] = st[j + 1], ![j + 1] = st[j]])
                    : j \in {i \in 1..(n - 1) : st[i].stakeid # st[i + 1].stakeid}}
          [] kind = "DuplicateStake" ->
                {WithStakes(p, isLegacy, [st EXCEPT ![j] = st[j - 1]]) : j \in 2..n}
          [] kind = "InvalidStakeSignature" ->
                {MakeProof(isLegacy, p.sequence, p.expirationTime, p.payoutScriptPubKey,
                           st, [AllSigned(n) EXCEPT ![j] = FALSE], TRUE) : j \in 1..n}
          [] kind = "InvalidProofSignature" ->
                {MakeProof(isLegacy, p.sequence, p.expirationTime, p.payoutScriptPubKey,
                           st, AllSigned(n), FALSE)}
          [] kind = "InvalidPayoutScript" ->
                {MakeProof(isLegacy, p.sequence, p.expirationTime,
                           Script("nonstandard", MasterKey), st, AllSigned(n), TRUE)}
          [] OTHER -> {p}

\* The chain views that differ from c in the one respect `kind`, for proof p.
ChangedChains(kind, c, p) ==
    LET coinOf(j) == c.coins[p.stakes[j].stake.utxo]
        withCoin(j, coin) ==
            [c EXCEPT !.coins = [c.coins EXCEPT ![p.stakes[j].stake.utxo] = coin]]
        n == Len(p.stakes)
    IN  CASE kind = "Expired" -> {[c EXCEPT !.tip.mtp = p.expirationTime]}
          [] kind = "MissingUtxo" -> {withCoin(j, NoCoin) : j \in 1..n}
          [] kind = "CoinbaseMismatch" ->
                {withCoin(j, [coinOf(j) EXCEPT !.coinbase = ~coinOf(j).coinbase]) : j \in 1..n}
          [] kind = "HeightMismatch" ->
                {withCoin(j, [coinOf(j) EXCEPT !.height = coinOf(j).height + 1]) : j \in 1..n}
          [] kind = "AmountMismatch" ->
                {withCoin(j, [coinOf(j) EXCEPT !.amount = coinOf(j).amount + 1]) : j \in 1..n}
          [] kind = "NonStandardDestination" ->
                {withCoin(j, [coinOf(j) EXCEPT !.script = Script("nonstandard", "k1")])
                    : j \in 1..n}
          [] kind = "DestinationNotSupported" ->
                {withCoin(j, [coinOf(j) EXCEPT !.script = Script("p2sh", "k1")]) : j \in 1..n}
          [] kind = "DestinationMismatch" ->
                {withCoin(j, [coinOf(j) EXCEPT !.script = Script("p2pkh", "k2")]) : j \in 1..n}
          [] OTHER -> {c}

\* ImmatureUtxo is produced by asking for one more confirmation.
ChangedConfirmations(kind, confirmations) ==
    IF kind = "ImmatureUtxo" THEN confirmations + 1 ELSE confirmations

\* What a change is expected to give: its own reason, except that legacy mode
\* skips the two proof-level checks of the current format and that the
\* structural overload does not look at the chain.
Expected(kind, overload, isLegacy) ==
    IF kind = "none" THEN Ok
    ELSE IF isLegacy /\ kind \in {"InvalidProofSignature", "InvalidPayoutScript"} THEN Ok
    ELSE IF kind \in ChainReasons /\ overload = "structural" THEN Ok
    ELSE kind

\* The next change is tried once the verification of the current input has
\* returned what is expected of it; the first one needs the base accepted by
\* the chain overload.
Mutate(t) ==
    /\ pc[t] = "done"
    /\ result[t] = Expected(mutation, mode[t], legacy)
    /\ mutation = "none" => mode[t] = "chain"
    /\ \E k \in 1..Len(KindOrder) :
          /\ k > KindIndex(mutation)
          /\ \A j \in (KindIndex(mutation) + 1)..(k - 1) :
                ChangedProofs(KindOrder[j], base.proof, legacy) = {}
          /\ mutation' = KindOrder[k]
          /\ proof' \in ChangedProofs(KindOrder[k], base.proof, legacy)
          /\ chain' \in ChangedChains(KindOrder[k], base.chain, base.proof)
          /\ minConfs' = ChangedConfirmations(KindOrder[k], base.minConfs)
    /\ produced' = IF result[t] = Ok THEN produced ELSE produced \cup {result[t]}
    /\ pc' = [pc EXCEPT ![t] = "idle"]
    /\ mode' = [mode EXCEPT ![t] = "none"]
    /\ idx' = [idx EXCEPT ![t] = 0]
    /\ prevId' = [prevId EXCEPT ![t] = 0]
    /\ utxos' = [utxos EXCEPT ![t] = {}]
    /\ tipMTP' = [tipMTP EXCEPT ![t] = 0]
    /\ activeHeight' = [activeHeight EXCEPT ![t] = 0]
    /\ result' = [result EXCEPT ![t] = Unset]
    /\ UNCHANGED <<dust, legacy, cs_main, entryChain, base, scoreVars, hexVars, treeVars>>

InitMutation ==
    /\ legacy \in BOOLEAN
    /\ dust = 2
    /\ minConfs = 1
    /\ \E plan \in SeqsUpTo(BaseStakes \X {TRUE}, AVALANCHE_MAX_PROOF_STAKES) :
          proof = PlanProof(legacy, 2, Script("p2pkh", MasterKey), plan, TRUE)
    /\ chain = ChainOf(Tip(1, 1), [u \in UTXOs |-> Coin(1, FALSE, 2, P2PKH1)])
    /\ base = [proof |-> proof, chain |-> chain, minConfs |-> minConfs]
    /\ mutation = "none"
    /\ produced = {}
    /\ InitThreads
    /\ InitNoScore
    /\ InitNoHex
    /\ InitNoTree

NextMutation ==
    \/ Lock("t1")
    \/ CallStructural("t1")
    \/ CallChain("t1")
    \/ StructuralEntry("t1")
    \/ StructuralStake("t1")
    \/ ChainTip("t1")
    \/ ChainHeight("t1")
    \/ ChainStake("t1")
    \/ Mutate("t1")

SpecMutation == InitMutation /\ [][NextMutation]_vars

-----------------------------------------------------------------------------
(* Two threads verifying one proof while the validation thread changes the *)
(* chain: every change of the chain is made with cs_main held.             *)

Writer == "w"

WriterLock ==
    /\ cs_main = NoThread
    /\ chain.version < MaxWrites
    /\ cs_main' = Writer
    /\ UNCHANGED <<proofVars, chain, pc, localVars>>

\* A block is connected: the tip moves up and the block spends or creates
\* the coin of outpoint u.
ConnectBlock(u) ==
    /\ cs_main = Writer
    /\ chain.version < MaxWrites
    /\ chain' = [tip |-> Tip(TipMedianTimePast(chain) + 1, ActiveHeight(chain) + 1),
                 coins |-> [chain.coins EXCEPT ![u] =
                               IF @.present THEN NoCoin
                               ELSE Coin(ActiveHeight(chain) + 1, FALSE, 2, P2PKH1)],
                 version |-> chain.version + 1]
    /\ UNCHANGED <<proofVars, cs_main, pc, localVars>>

\* The tip block is disconnected: the tip moves down, and the coin the block
\* spent comes back or the coin it created goes.
DisconnectBlock(u) ==
    /\ cs_main = Writer
    /\ chain.version < MaxWrites
    /\ chain.tip.present
    /\ chain' = [tip |-> IF chain.tip.height <= 1 THEN NoTip
                         ELSE Tip(chain.tip.mtp - 1, chain.tip.height - 1),
                 coins |-> [chain.coins EXCEPT ![u] =
                               IF @.present THEN NoCoin
                               ELSE Coin(1, FALSE, 2, P2PKH1)],
                 version |-> chain.version + 1]
    /\ UNCHANGED <<proofVars, cs_main, pc, localVars>>

WriterUnlock ==
    /\ cs_main = Writer
    /\ cs_main' = NoThread
    /\ UNCHANGED <<proofVars, chain, pc, localVars>>

InitLock ==
    /\ legacy = FALSE
    /\ dust = 2
    /\ minConfs = 1
    /\ \E e \in {0, 2} :
          proof = MakeProof(FALSE, 0, e, Script("p2pkh", MasterKey),
                            <<MakeStake(1, 2, 1, FALSE, "k1"),
                              MakeStake(2, 2, 1, FALSE, "k1")>>,
                            <<TRUE, TRUE>>, TRUE)
    /\ chain = ChainOf(Tip(1, 1), [u \in UTXOs |-> Coin(1, FALSE, 2, P2PKH1)])
    /\ InitThreads
    /\ InitNoHarness

NextLock ==
    \/ \E t \in Threads :
          \/ Lock(t)
          \/ CallChain(t)
          \/ StructuralEntry(t)
          \/ StructuralStake(t)
          \/ ChainTip(t)
          \/ ChainHeight(t)
          \/ ChainStake(t)
          \/ Unlock(t)
    \/ WriterLock
    \/ \E u \in UTXOs : ConnectBlock(u) \/ DisconnectBlock(u)
    \/ WriterUnlock

SpecLock == InitLock /\ [][NextLock]_vars

-----------------------------------------------------------------------------
(* Construction of proofs with one more stake each time, and their score. *)

\* Longest stake list whose score is computed.
MaxScoreStakes == 3

\* coins * COIN + satoshis, for coins and satoshis below 2^31 / 16
AmountOf(coins, satoshis) == AmountAdd(AmountMul(COIN, FromInt(coins)), FromInt(satoshis))

\* Stake amounts: a satoshi, just below and at a hundredth of a coin, a coin,
\* and amounts whose score is 2^31 - 1 and 2^32 - 1.
ScoreAmounts ==
    {AmountOf(0, 1), AmountOf(0, 999999), AmountOf(0, 1000000), AmountOf(1, 0),
     AmountOf(21474836, 47000000), AmountOf(42949672, 95000000)}

\* A proof is constructed from the stakes of the last one and one more stake;
\* its constructor computes the score.
ConstructWithStake(a) ==
    /\ Len(stakeAmounts) < MaxScoreStakes
    /\ stakeAmounts' = Append(stakeAmounts, a)
    /\ score' = computeScore(stakeAmounts')
    /\ prevScore' = score
    /\ UNCHANGED <<verifyVars, hexVars, treeVars>>

InitScore ==
    /\ InitNoScore
    /\ legacy = FALSE
    /\ dust = 2
    /\ minConfs = 1
    /\ proof = MakeProof(FALSE, 0, 0, Script("p2pkh", MasterKey), <<>>, <<>>, TRUE)
    /\ chain = EmptyChain
    /\ InitThreads
    /\ mutation = "none"
    /\ produced = {}
    /\ base = NoBase
    /\ InitNoHex
    /\ InitNoTree

NextScore == \E a \in ScoreAmounts : ConstructWithStake(a)

SpecScore == InitScore /\ [][NextScore]_vars

-----------------------------------------------------------------------------
(* Decoding and encoding: a string is decoded with FromHex, the decoded      *)
(* proof is encoded with ToHex, and the encoding is decoded again.           *)

MaxHexStakes == 1       \* stakes of the proofs the strings are made from
MaxTrailingBytes == 1   \* bytes appended after an encoded proof

FillBytes(w, b) == [k \in 1..w |-> b]
FillValues == {18, 171}

WireStake(b) ==
    [txid |-> FillBytes(HashBytes, b),
     n |-> <<1>> \o FillBytes(IndexBytes - 1, 0),
     amount |-> <<b>> \o FillBytes(IntBytes - 1, 0),
     height |-> <<b>> \o FillBytes(HeightBytes - 1, 0),
     pubkey |-> <<2>> \o FillBytes(PubKeyBytes - 1, b),
     sig |-> FillBytes(SigBytes, b)]

WireProof(isLegacy, count, b) ==
    [sequence |-> <<b>> \o FillBytes(IntBytes - 1, 0),
     expirationTime |-> <<b, b>> \o FillBytes(IntBytes - 2, 0),
     master |-> <<3>> \o FillBytes(PubKeyBytes - 1, b),
     stakes |-> [k \in 1..count |-> WireStake(b)],
     payoutScriptPubKey |-> IF isLegacy THEN <<>>
                            ELSE <<118, 169, b, 136, 172>>,
     signature |-> IF isLegacy THEN <<>> ELSE FillBytes(SigBytes, b)]

NonHexChar == "g"

ToUpper(c) == IF HexDigit(c) >= 10 THEN UpperDigits[HexDigit(c) + 1] ELSE c
OtherDigit(c) == IF c = "0" THEN "1" ELSE "0"

\* The strings made from the encoding str of a proof: str itself, str with
\* one character put in upper case, replaced by a character that is not
\* hexadecimal or by another digit, str cut short, and str with more after it.
StringsFrom(str) ==
    {str}
    \cup {[str EXCEPT ![k] = ToUpper(str[k])] : k \in 1..Len(str)}
    \cup {[str EXCEPT ![k] = NonHexChar] : k \in 1..Len(str)}
    \cup {[str EXCEPT ![k] = OtherDigit(str[k])] : k \in 1..Len(str)}
    \cup {SubSeq(str, 1, k) : k \in 0..(Len(str) - 1)}
    \cup {str \o HexStr(FillBytes(k, 0)) : k \in 1..MaxTrailingBytes}
    \cup {str \o <<"0">>, str \o <<NonHexChar, "0">>, str \o <<"A", "b">>}

IsLower(str) == \A k \in 1..Len(str) : \E d \in 1..16 : LowerDigits[d] = str[k]

CallFromHex ==
    /\ hexPc = "start"
    /\ hexResult' = FromHex(legacy, hexInput)
    /\ hexPc' = IF hexResult'.ok THEN "decoded" ELSE "rejected"
    /\ UNCHANGED <<hexInput, hexOutput, hexAgain, verifyVars, scoreVars, treeVars>>

CallToHex ==
    /\ hexPc = "decoded"
    /\ hexOutput' = ToHex(legacy, hexResult.proof)
    /\ hexPc' = "encoded"
    /\ UNCHANGED <<hexInput, hexResult, hexAgain, verifyVars, scoreVars, treeVars>>

CallFromHexAgain ==
    /\ hexPc = "encoded"
    /\ hexAgain' = FromHex(legacy, hexOutput)
    /\ hexPc' = "redecoded"
    /\ UNCHANGED <<hexInput, hexResult, hexOutput, verifyVars, scoreVars, treeVars>>

InitHex ==
    /\ legacy \in BOOLEAN
    /\ \E count \in 0..MaxHexStakes, b \in FillValues :
          hexInput \in StringsFrom(ToHex(legacy, WireProof(legacy, count, b)))
    /\ hexResult = NoResult
    /\ hexOutput = <<>>
    /\ hexAgain = NoResult
    /\ hexPc = "start"
    /\ dust = 2
    /\ minConfs = 1
    /\ proof = MakeProof(FALSE, 0, 0, Script("p2pkh", MasterKey), <<>>, <<>>, TRUE)
    /\ chain = EmptyChain
    /\ InitThreads
    /\ mutation = "none"
    /\ produced = {}
    /\ base = NoBase
    /\ InitNoScore
    /\ InitNoTree

NextHex ==
    \/ CallFromHex
    \/ CallToHex
    \/ CallFromHexAgain

SpecHex == InitHex /\ [][NextHex]_vars

-----------------------------------------------------------------------------
(* twoInOneOutTree: the leaf transactions are queued, and each loop step     *)
(* takes two transactions off the queue and spends them in a new one.        *)
(* A transaction is named by its position in chain; its output is worth      *)
(* coins * 25 COIN - fees * 1337 satoshis.                                   *)

MaxTreeDepth == 8       \* the deepest tree that is built

RECURSIVE Pow2(_)
Pow2(i) == IF i = 0 THEN 1 ELSE 2 * Pow2(i - 1)

\* The sum of the nodes at each depth of a binary tree.
RECURSIVE CountTxs(_)
CountTxs(depth) == Pow2(depth) + (IF depth = 0 THEN 0 ELSE CountTxs(depth - 1))

\* toTx: a transaction spending the coinbase utxo k.
toTx(k) == [id |-> k, vin |-> <<>>, coins |-> 1, fees |-> 1]

\* What front() gives for a queue without elements.
NoTx == [id |-> 0, vin |-> <<>>, coins |-> 0, fees |-> 0]

\* The transaction spending output 0 of txin1 and of txin2.
Combine(txin1, txin2, id) ==
    [id |-> id, vin |-> <<txin1.id, txin2.id>>,
     coins |-> txin1.coins + txin2.coins, fees |-> txin1.fees + txin2.fees + 1]

\* The count, the leafs, and the leaf transactions queued and recorded.
TreeSetup ==
    /\ treePc = "entry"
    /\ txs' = CountTxs(treeDepth)
    /\ queue' = [k \in 1..Pow2(treeDepth) |-> toTx(k)]
    /\ txChain' = queue'
    /\ treePc' = "loop"
    /\ UNCHANGED <<treeDepth, verifyVars, scoreVars, hexVars>>

\* One pass of the while (true) loop.  front() and pop() of a queue without
\* elements are undefined: the read faults, or the pass goes on with whatever
\* was read and leaves the queue claiming to be empty or not.
TreeStep ==
    /\ treePc = "loop"
    /\ IF Len(queue) >= 2
       THEN LET txin1 == queue[1]
                txin2 == queue[2]
                rest == SubSeq(queue, 3, Len(queue))
                txref == Combine(txin1, txin2, Len(txChain) + 1)
            IN  /\ txChain' = Append(txChain, txref)
                /\ IF rest = <<>>
                   THEN queue' = rest /\ treePc' = "assert"
                   ELSE queue' = Append(rest, txref) /\ treePc' = "loop"
       ELSE \E outcome \in {"fault", "empty", "not empty"} :
                LET txin1 == IF queue = <<>> THEN NoTx ELSE queue[1]
                    txref == Combine(txin1, NoTx, Len(txChain) + 1)
                IN  IF outcome = "fault"
                    THEN treePc' = "crashed" /\ UNCHANGED <<queue, txChain>>
                    ELSE /\ txChain' = Append(txChain, txref)
                         /\ queue' = <<>>
                         /\ treePc' = IF outcome = "empty" THEN "assert" ELSE "undefined"
    /\ UNCHANGED <<treeDepth, txs, verifyVars, scoreVars, hexVars>>

\* assert(chain.size() == txs); return chain;
TreeAssert ==
    /\ treePc = "assert"
    /\ treePc' = IF Len(txChain) = txs THEN "returned" ELSE "assert_failed"
    /\ UNCHANGED <<treeDepth, txs, queue, txChain, verifyVars, scoreVars, hexVars>>

\* MempoolAcceptance63TxTree and MempoolAcceptance511TxTree: the callers'
\* assertions on the size of what was returned.
TreeBenchmarks == {[depth |-> 5, size |-> 63], [depth |-> 8, size |-> 511]}

CallerAssert ==
    /\ treePc = "returned"
    /\ \E b \in TreeBenchmarks :
          /\ b.depth = treeDepth
          /\ treePc' = IF Len(txChain) = b.size THEN "benchmarked"
                       ELSE "caller_assert_failed"
    /\ UNCHANGED <<treeDepth, txs, queue, txChain, verifyVars, scoreVars, hexVars>>

InitTree ==
    /\ treeDepth \in 0..MaxTreeDepth
    /\ txs = 0
    /\ queue = <<>>
    /\ txChain = <<>>
    /\ treePc = "entry"
    /\ legacy = FALSE
    /\ dust = 2
    /\ minConfs = 1
    /\ proof = MakeProof(FALSE, 0, 0, Script("p2pkh", MasterKey), <<>>, <<>>, TRUE)
    /\ chain = EmptyChain
    /\ InitThreads
    /\ mutation = "none"
    /\ produced = {}
    /\ base = NoBase
    /\ InitNoScore
    /\ InitNoHex

NextTree ==
    \/ TreeSetup
    \/ TreeStep
    \/ TreeAssert
    \/ CallerAssert

SpecTree == InitTree /\ [][NextTree]_vars

-----------------------------------------------------------------------------
(* Properties of structural verification. *)

\* The first entry of a list of <<reason, fails>> pairs that fails, or Ok.
FirstFailure(checks) ==
    IF \E k \in 1..Len(checks) : checks[k][2]
    THEN checks[CHOOSE k \in 1..Len(checks) :
                    /\ checks[k][2]
                    /\ \A j \in 1..(k - 1) : ~checks[j][2]][1]
    ELSE Ok

\* The structural checks of the specification, in its order: the proof-level
\* ones, then the four of stake 1, the four of stake 2, ...
SpecStructuralChecks(p, d, isLegacy) ==
    LET n == Len(p.stakes)
        st(k) == p.stakes[k].stake
        head == << <<"NoStake", n = 0>>,
                   <<"TooManyUtxos", n > AVALANCHE_MAX_PROOF_STAKES>>,
                   <<"InvalidPayoutScript",
                     ~isLegacy /\ ~IsStandard(p.payoutScriptPubKey)>>,
                   <<"InvalidProofSignature",
                     ~isLegacy /\ ~VerifySchnorr(p.master, p.limitedProofId, p.signature)>> >>
        perStake(k) ==
                << <<"DustThreshold", st(k).amount < d>>,
                   <<"WrongStakeOrdering", k > 1 /\ st(k).stakeid < st(k - 1).stakeid>>,
                   <<"DuplicateStake", \E j \in 1..(k - 1) : st(j).utxo = st(k).utxo>>,
                   <<"InvalidStakeSignature",
                     ~SignedStakeVerify(p.stakes[k], getStakeCommitment(p, isLegacy))>> >>
    IN  [m \in 1..(4 + 4 * n) |->
            IF m <= 4 THEN head[m]
            ELSE perStake(((m - 5) \div 4) + 1)[((m - 5) % 4) + 1]]

StructuralDone(t) == pc[t] = "done" /\ mode[t] = "structural"

\* C1: structural verification returns the reason of the first failing check in
\* the order NoStake, TooManyUtxos, (current mode) InvalidPayoutScript,
\* InvalidProofSignature, then per stake in list order DustThreshold,
\* WrongStakeOrdering, DuplicateStake, InvalidStakeSignature; ok iff none fails.
C1_FailFastOrder ==
    \A t \in Threads :
        StructuralDone(t) =>
            result[t] = FirstFailure(SpecStructuralChecks(proof, dust, legacy))

\* C1 witness: a returned verification whose second stake fails the ordering
\* test while it is also a duplicate with a bad signature: the first one wins.
C1_Witness ==
    /\ StructuralDone("t1")
    /\ result["t1"] = "WrongStakeOrdering"
    /\ idx["t1"] = 2
    /\ proof.stakes[2].stake.utxo = proof.stakes[1].stake.utxo
    /\ ~SignedStakeVerify(proof.stakes[2], getStakeCommitment(proof, legacy))

\* C6: an accepted proof has between 1 and AVALANCHE_MAX_PROOF_STAKES stakes,
\* no amount below the dust threshold, stake ids that never decrease from one
\* stake to the next (equal ids are not an ordering failure), and no utxo twice.
C6_AcceptedProofInvariants ==
    \A t \in Threads :
        StructuralDone(t) =>
            LET n == Len(proof.stakes)
                st(k) == proof.stakes[k].stake
            IN  /\ result[t] = Ok =>
                    /\ 1 <= n /\ n <= AVALANCHE_MAX_PROOF_STAKES
                    /\ \A k \in 1..n : st(k).amount >= dust
                    /\ \A k \in 1..(n - 1) : st(k).stakeid <= st(k + 1).stakeid
                    /\ \A j, k \in 1..n : j # k => st(j).utxo # st(k).utxo
                /\ result[t] = "WrongStakeOrdering" =>
                    /\ idx[t] > 1
                    /\ st(idx[t]).stakeid < st(idx[t] - 1).stakeid

\* C6 witness: an accepted proof of two stakes with equal stake ids.
C6_Witness ==
    /\ StructuralDone("t1")
    /\ result["t1"] = Ok
    /\ Len(proof.stakes) = 2
    /\ proof.stakes[1].stake.stakeid = proof.stakes[2].stake.stakeid

-----------------------------------------------------------------------------
(* Properties of chain verification. *)

ChainDone(t) == pc[t] \in {"done", "released"} /\ mode[t] = "chain"

\* The chain checks in the order of the specification: Expired, then the eight
\* of stake 1, the eight of stake 2, ...  Each test is the one the code makes
\* under that reason (the maturity test is on the height the stake declares).
SpecChainChecks(p, c, confirmations) ==
    LET n == Len(p.stakes)
        st(k) == p.stakes[k].stake
        coin(k) == c.coins[st(k).utxo]
        mtp == IF c.tip.present THEN c.tip.mtp ELSE 0
        height == IF c.tip.present THEN c.tip.height ELSE 0
        dest(k) == ExtractDestination(coin(k).script)
        perStake(k) ==
            << <<"MissingUtxo", ~coin(k).present>>,
               <<"ImmatureUtxo", st(k).height + confirmations - 1 > height>>,
               <<"CoinbaseMismatch", coin(k).present /\ st(k).coinbase # coin(k).coinbase>>,
               <<"HeightMismatch", coin(k).present /\ st(k).height # coin(k).height>>,
               <<"AmountMismatch", coin(k).present /\ st(k).amount # coin(k).amount>>,
               <<"NonStandardDestination", coin(k).present /\ dest(k) = NoDestination>>,
               <<"DestinationNotSupported", coin(k).present /\ dest(k).kind # "pkhash">>,
               <<"DestinationMismatch", coin(k).present /\ dest(k) # PKHash(st(k).pubkey)>> >>
    IN  [m \in 1..(1 + 8 * n) |->
            IF m = 1 THEN <<"Expired", p.expirationTime > 0 /\ mtp >= p.expirationTime>>
            ELSE perStake(((m - 2) \div 8) + 1)[((m - 2) % 8) + 1]]

\* C2: chain verification returns the structural reason when structural
\* verification fails, whatever the chain holds; otherwise the first failing
\* check in the order Expired, then per stake in list order MissingUtxo,
\* ImmatureUtxo, CoinbaseMismatch, HeightMismatch, AmountMismatch,
\* NonStandardDestination, DestinationNotSupported, DestinationMismatch.
C2_ChainFailFastOrder ==
    \A t \in Threads :
        ChainDone(t) =>
            result[t] = FirstFailure(SpecStructuralChecks(proof, dust, legacy)
                                     \o SpecChainChecks(proof, chain, minConfs))

\* C2 witness: the first stake passed every check and the coin of the second
\* differs in its coinbase flag and in its height: the coinbase test wins.
C2_Witness ==
    /\ ChainDone("t1")
    /\ result["t1"] = "CoinbaseMismatch"
    /\ idx["t1"] = 2
    /\ chain.coins[proof.stakes[2].stake.utxo].height # proof.stakes[2].stake.height

\* Whether the verification of thread t got as far as the maturity test of
\* the stake at idx[t]: it passed structural verification and the expiration
\* check, and the coin of that stake was found.
ReachedMaturityTest(t) ==
    /\ ChainDone(t)
    /\ result[t] \notin StructuralReasons \cup {"Expired", "MissingUtxo"}

C4_AcceptedProofIsBacked ==
    \A t \in Threads :
        (ChainDone(t) /\ result[t] = Ok) =>
            /\ \A k \in 1..Len(proof.stakes) :
                  LET s == proof.stakes[k].stake
                      coin == chain.coins[s.utxo]
                  IN  /\ coin.present
                      /\ coin.coinbase = s.coinbase
                      /\ coin.height = s.height
                      /\ coin.amount = s.amount
                      /\ ExtractDestination(coin.script) = PKHash(s.pubkey)
                      /\ coin.height + minConfs - 1 <= ActiveHeight(chain)
            /\ \/ proof.expirationTime <= 0
               \/ TipMedianTimePast(chain) < proof.expirationTime

\* C4 witness: an accepted proof of two stakes with an expiration time ahead
\* of the tip's median time past.
C4_Witness ==
    /\ ChainDone("t1")
    /\ result["t1"] = Ok
    /\ Len(proof.stakes) = 2
    /\ proof.expirationTime > TipMedianTimePast(chain)
    /\ chain.tip.present

\* C5: a structurally valid proof is reported Expired exactly when its
\* expiration time is positive and the tip's median time past has reached it;
\* never with expiration time 0, and never without a tip.
C5_ExpiredExactly ==
    \A t \in Threads :
        (ChainDone(t) /\ result[t] \notin StructuralReasons) =>
            /\ (result[t] = "Expired")
                  <=> /\ proof.expirationTime > 0
                      /\ chain.tip.present
                      /\ chain.tip.mtp >= proof.expirationTime
            /\ proof.expirationTime = 0 => result[t] # "Expired"
            /\ ~chain.tip.present => result[t] # "Expired"

\* C5 witness: Expired reported at the boundary, median time past equal to
\* the expiration time.
C5_Witness ==
    /\ ChainDone("t1")
    /\ result["t1"] = "Expired"
    /\ chain.tip.mtp = proof.expirationTime

-----------------------------------------------------------------------------
(* Each rejection reason in isolation. *)

\* C8: each of the 17 reasons is produced in isolation: starting from a proof
\* and chain view the chain overload accepts, the change named after a reason
\* makes verification return exactly that reason (structural reasons from
\* either overload, chain reasons from the chain overload).
C8_EachReasonInIsolation ==
    \A t \in Threads :
        (pc[t] = "done" /\ mutation # "none") =>
            /\ result[t] = Expected(mutation, mode[t], legacy)
            /\ produced \subseteq AllReasons
            /\ \A r \in produced : KindIndex(r) < KindIndex(mutation)

\* C8 witness: all 17 reasons have been produced from one accepted base.
C8_Witness ==
    /\ pc["t1"] = "done"
    /\ mutation = "DestinationMismatch"
    /\ result["t1"] = "DestinationMismatch"
    /\ produced \cup {result["t1"]} = AllReasons

-----------------------------------------------------------------------------
(* Chain verification and the chain lock. *)

InChainVerify(t) ==
    /\ mode[t] = "chain"
    /\ pc[t] \in {"sv_entry", "sv_loop", "cv_tip", "cv_height", "cv_loop", "done"}

\* C10: a chain verification runs with cs_main held by its thread from entry
\* to return; the chain state does not change in between, neither by another
\* thread nor by the verification, so the median time past, the active height
\* and the coins it reads, and the verdict it returns, are those of the one
\* chain state it was entered with.
C10_VerifiesUnderChainLock ==
    \A t \in Threads :
        InChainVerify(t) =>
            /\ cs_main = t
            /\ chain = entryChain[t]
            /\ pc[t] \in {"cv_height", "cv_loop"} =>
                  tipMTP[t] = TipMedianTimePast(entryChain[t])
            /\ pc[t] = "cv_loop" => activeHeight[t] = ActiveHeight(entryChain[t])
            /\ pc[t] = "done" =>
                  result[t] = FirstFailure(SpecStructuralChecks(proof, dust, legacy)
                                  \o SpecChainChecks(proof, entryChain[t], minConfs))

\* C10 witness: one thread is in the stake loop of a chain verification on a
\* chain the validation thread has changed since the other thread's
\* verification, which ran on the earlier state and returned.
C10_Witness ==
    /\ pc["t1"] = "cv_loop"
    /\ idx["t1"] = 2
    /\ pc["t2"] = "released"
    /\ mode["t2"] = "chain"
    /\ entryChain["t2"].version < entryChain["t1"].version

-----------------------------------------------------------------------------
(* The score. *)

\* The score the specification defines, at full width: (100 * sum) / COIN.
SpecScoreOf(amounts) ==
    AmountDiv(AmountMul(100, getStakedAmount(amounts)), COIN)

\* C7: the score is (100 * sum of amounts) / COIN, truncated, held in 32 bits,
\* and adding a stake never yields a smaller score, and a strictly larger one
\* exactly when 100 * sum crosses a multiple of COIN.
C7_ScoreMonotone ==
    /\ score = ToUint32(SpecScoreOf(stakeAmounts))
    /\ Len(stakeAmounts) > 0 =>
          LET before == SubSeq(stakeAmounts, 1, Len(stakeAmounts) - 1)
          IN  /\ ~Less(score, prevScore)
              /\ Less(prevScore, score) <=> Less(SpecScoreOf(before), SpecScoreOf(stakeAmounts))

-----------------------------------------------------------------------------
(* Decoding and encoding. *)

\* What FromHex answers for a string that is not hexadecimal, and for a
\* hexadecimal string whose bytes do not hold a proof.
HexErrors ==
    hexPc # "start" =>
        /\ ~IsHex(hexInput) => (~hexResult.ok /\ hexResult.error = "not-hex")
        /\ (IsHex(hexInput) /\ ~UnserializeProof(legacy, ParseHex(hexInput)).ok)
              => (~hexResult.ok /\ hexResult.error = "invalid-format")

-----------------------------------------------------------------------------
(* The transaction tree. *)

====
